---- MODULE Spec2Model ----
(***************************************************************************)
(* Benchmark orchestration and telemetry pipeline of                       *)
(* ollama_benchmark_setup.py: run_tests_for_models (the orchestrator and   *)
(* the per-model lifecycle), telemetry_worker (the sampler thread) and     *)
(* run_cmd (the command executor).                                         *)
(***************************************************************************)
EXTENDS Integers, Sequences, FiniteSets, TLC

(* ---- bounds of the model ---- *)
NumModels == 2      \* models of the input list
NumTests == 2       \* test files of TEST_DIR
NumDevices == 2     \* accelerator devices, in the specification of the sampler
MaxTicks == 2       \* sampling ticks, in the specification of the sampler
NumRuns == 2        \* earlier runs with files in RESULTS_DIR and TELEMETRY_DIR
MaxCalls == 2       \* calls of the Aggregator, in the specification of the Aggregator

(* ---- program constants ---- *)
PING_RETRIES == 3
MAX_OUTPUT_CHARS == 5000
MAX_RESPONSE_TIME == 180
STOP_POLLS == 6
NUM_FIELDS == 18
TIMEOUT_RC == 124
PULL_TIMEOUT == 300
PING_MARGIN == 30
DEFAULT_LOAD_TIME == 30

None == <<"None">>
TIMEOUT == <<"T", "I", "M", "E", "O", "U", "T">>

Models == [i \in 1..NumModels |-> i]
TestNames == 1..NumTests

VARIABLES
    models,         \* argument of run_tests_for_models: the list of model identifiers
    tick_limit,     \* sampling ticks the specification lets the sampler start
    device_limit,   \* devices the machine can have in the specification
    pc,             \* position of the orchestrator thread in run_tests_for_models
    mi,             \* index of the model of the for loop (0 before the first)
    attempt,        \* loop variable of the retry loop
    ping_ok,
    test_files,     \* sorted(TEST_DIR.glob("*.txt")) of the current model
    ti,             \* position in test_files
    polls,          \* iterations done of the stop verification loop
    stopped,
    stop_event,     \* threading.Event shared with the sampler
    results_dir,    \* files of RESULTS_DIR other than the result sink of this run
    telemetry_dir,  \* files of TELEMETRY_DIR other than the telemetry sink of this run
    payload,        \* outcome of the last call of generate_master_dashboard
    prev_payload,   \* outcome of the call before it
    results_exists, \* the result sink exists
    result_headers, \* header rows in the result sink
    results,        \* rows of the result sink, after the header
    spc,            \* position of the sampler thread in telemetry_worker
    header,         \* header written to the telemetry sink
    device_count,
    dev,            \* loop variable i of the device loop / of the line loop
    lines,          \* number of lines returned by the fallback query
    telemetry,      \* rows of the telemetry sink, after the header
    sinkOpen,       \* the sampler holds the telemetry sink open
    ticks,          \* sampling ticks started
    failed,         \* the query that raised in the last step of the device loop
    row,            \* the dict handed to writer.writerow in that step
    same_load,      \* the devices report the same utilization to the fallback query
    \* ---- history of the run, read by the properties only ----
    phase,          \* lifecycle state of every model
    pulls, pings, pullFails,   \* commands issued for the current model
    backoffs,       \* waits of PING_RETRY_WAIT made for the current model
    pullOk,         \* the pull of the current attempt exited with status zero
    verified,       \* an attempt of the current model had pull ok and a real ping answer
    stopReq,        \* a stop request was issued for the current model
    test_rc,        \* rc of line 1099: exit status of the test call of this iteration, 0 before it returns
    ended,          \* how the test call of each (model, test case) ended
    inFlight,       \* a tick was in flight when the cancellation flag was set
    ticksAfterCancel, rowsAfterCancel, sleepsAfterCancel,
    joinTimedOut,
    aggCalls,       \* invocations of generate_master_dashboard
    aggSawOpen,     \* the telemetry sink was held open when it was read
    aggSawSampler,  \* position of the sampler when the Aggregator started
    \* ---- one call of a function of the program on its own ----
    call,           \* the arguments of the call and what the environment does with it
    ret             \* what the call returned, and what it left behind

dirVars == <<results_dir, telemetry_dir, payload, prev_payload>>
orchVars == <<dirVars, pc, mi, attempt, ping_ok, test_files, ti, polls, stopped, stop_event,
              results_exists, result_headers, results, phase, pulls, pings, pullFails, backoffs, pullOk,
              verified, stopReq, test_rc, ended, joinTimedOut, aggCalls, aggSawOpen,
              aggSawSampler>>
samplerVars == <<spc, header, device_count, dev, lines, telemetry, sinkOpen, ticks,
                 failed, row, same_load, ticksAfterCancel, rowsAfterCancel, sleepsAfterCancel>>
cmdVars == <<call, ret>>
envVars == <<models, tick_limit, device_limit, cmdVars>>
vars == <<envVars, orchVars, samplerVars, inFlight>>

(* ---- helpers ---- *)
Min(a, b) == IF a < b THEN a ELSE b

SortedSeq_reversed(S) ==
    LET RECURSIVE Desc(_)
        Desc(T) == IF T = {} THEN <<>>
                   ELSE LET m == CHOOSE x \in T : \A y \in T : y <= x
                        IN <<m>> \o Desc(T \ {m})
    IN Desc(S)

\* sorted(...): the ascending sequence of a set of names
RECURSIVE SortedSeq(_)
SortedSeq(S) ==
    IF S = {} THEN <<>>
    ELSE LET m == CHOOSE x \in S : \A y \in S : x <= y
         IN <<m>> \o SortedSeq(S \ {m})

\* str.strip(): drop leading and trailing blanks
RECURSIVE LStrip(_)
LStrip(s) == IF s # <<>> /\ Head(s) = " " THEN LStrip(Tail(s)) ELSE s
RECURSIVE RStrip(_)
RStrip(s) == IF s # <<>> /\ s[Len(s)] = " " THEN RStrip(SubSeq(s, 1, Len(s) - 1)) ELSE s
Strip(s) == RStrip(LStrip(s))

\* what a child process can write to stdout
RawOuts == {<<>>, <<" ">>, <<"O", "K">>, <<" ", "O", "K", " ">>}
\* what a model answers to a test prompt, and the whole seconds it takes
TestOuts == {<<"O", "K">>}
TestDurations == {2}
\* elapsed time, in whole seconds, measured at line 1126 when subprocess.run gives up
\* after timeout=MAX_RESPONSE_TIME
TimeoutDurations == {MAX_RESPONSE_TIME}
ExitCodes == {0, 1, TIMEOUT_RC}
\* what subprocess.run can do: return a completed process or raise TimeoutExpired
TimedOut == [timedOut |-> TRUE, stdout |-> <<>>, rc |-> 0]
Completions == [timedOut : {FALSE}, stdout : RawOuts, rc : ExitCodes] \cup {TimedOut}
TestCompletions == [timedOut : {FALSE}, stdout : TestOuts, rc : {0, 1}] \cup {TimedOut}

\* run_cmd(cmd, timeout, capture=True): (stdout.strip(), rc), or (None, 124) on timeout
run_cmd(c) ==
    IF c.timedOut THEN [out |-> None, rc |-> TIMEOUT_RC]
    ELSE [out |-> Strip(c.stdout), rc |-> c.rc]

\* ollama_exec passes run_cmd's result through
ollama_exec(c) == run_cmd(c)

\* the timeout= argument that reaches subprocess.run: None or a number of seconds
NoTimeout == [finite |-> FALSE]
Seconds(n) == [finite |-> TRUE, seconds |-> n]
\* the external commands of a run: lines 1052 (pull), 1060 (ping), 1097 (test),
\* 1152 (stop), 1158 (active-model listing) and 918 (the sampler's fallback query)
ShellCommands == {"pull", "ping", "stop", "ps", "query"}
Commands == ShellCommands \cup {"test"}
\* the timeout= argument that reaches subprocess.run for each of them; stop, ps and
\* the query are called without one, and ollama_exec and run_cmd default to None
TimeoutOf(command) ==
    CASE command = "pull" -> Seconds(PULL_TIMEOUT)
      [] command = "ping" -> Seconds(DEFAULT_LOAD_TIME + PING_MARGIN)
      [] command = "test" -> Seconds(MAX_RESPONSE_TIME)
      [] OTHER -> NoTimeout
\* subprocess.run(timeout=None) never raises TimeoutExpired
Outcomes(command) ==
    IF TimeoutOf(command).finite THEN Completions ELSE Completions \ {TimedOut}

\* what `ollama ps` can write to stdout: nothing, the header line alone, the header
\* line and the line of the model that is being stopped
ThisModel == "<model>"
PsOuts == {<<>>, <<"NAME">>, <<"NAME", ThisModel>>}
PsCompletions == [timedOut : {FALSE}, stdout : PsOuts, rc : ExitCodes]
\* line 1159: `model not in (ps_out or "")`
StopConfirmed(ps_out) ==
    ps_out = None \/ ~\E k \in 1..Len(ps_out) : ps_out[k] = ThisModel

\* `rc != 0` after the pull
PullFailed(r) == r.rc # 0

\* `rc == 0 and out and out.strip()` after the ping
PingAnswered_rcOnly(r) == r.rc = 0
PingAnswered(r) == r.rc = 0 /\ r.out # None /\ r.out # <<>> /\ Strip(r.out) # <<>>

\* `for attempt in range(PING_RETRIES)`: is there an iteration for this value
InRetryRange_oneMore(a) == a < PING_RETRIES + 1
InRetryRange(a) == a < PING_RETRIES

\* out[:MAX_OUTPUT_CHARS]
Clip_unbounded(out) == out
Clip(out) == SubSeq(out, 1, Min(Len(out), MAX_OUTPUT_CHARS))

\* result_data of a completed test call and of a timed-out one
CompletedRecord(model, tname, out, duration) ==
    [model |-> model, test_case |-> tname, duration_s |-> duration,
     output_chars |-> Len(out), output |-> Clip(out)]
TimeoutRecord_zeroDuration(model, tname, duration) ==
    [model |-> model, test_case |-> tname, duration_s |-> 0,
     output_chars |-> 0, output |-> TIMEOUT]
TimeoutRecord(model, tname, duration) ==
    [model |-> model, test_case |-> tname, duration_s |-> duration,
     output_chars |-> 0, output |-> TIMEOUT]

(* ======================= aggregator: generate_master_dashboard ======================= *)
\* Column names are sequences of characters.
\* fieldnames of the primary backend, lines 775-782
fieldnames == <<
    <<"t", "i", "m", "e", "s", "t", "a", "m", "p">>,
    <<"g", "p", "u", "_", "i", "n", "d", "e", "x">>,
    <<"u", "t", "i", "l", "_", "g", "p", "u", "_", "p", "c", "t">>,
    <<"u", "t", "i", "l", "_", "m", "e", "m", "o", "r", "y", "_", "p", "c", "t">>,
    <<"m", "e", "m", "_", "u", "s", "e", "d", "_", "M", "i", "B">>,
    <<"m", "e", "m", "_", "t", "o", "t", "a", "l", "_", "M", "i", "B">>,
    <<"m", "e", "m", "_", "f", "r", "e", "e", "_", "M", "i", "B">>,
    <<"t", "e", "m", "p", "_", "C">>,
    <<"p", "o", "w", "e", "r", "_", "W">>,
    <<"p", "o", "w", "e", "r", "_", "l", "i", "m", "i", "t", "_", "W">>,
    <<"c", "l", "o", "c", "k", "_", "c", "o", "r", "e", "_", "M", "H", "z">>,
    <<"c", "l", "o", "c", "k", "_", "m", "e", "m", "o", "r", "y", "_", "M", "H", "z">>,
    <<"c", "l", "o", "c", "k", "_", "s", "m", "_", "M", "H", "z">>,
    <<"f", "a", "n", "_", "s", "p", "e", "e", "d", "_", "p", "c", "t">>,
    <<"p", "c", "i", "e", "_", "t", "x", "_", "M", "B", "p", "s">>,
    <<"p", "c", "i", "e", "_", "r", "x", "_", "M", "B", "p", "s">>,
    <<"e", "n", "c", "o", "d", "e", "r", "_", "u", "t", "i", "l", "_", "p", "c", "t">>,
    <<"d", "e", "c", "o", "d", "e", "r", "_", "u", "t", "i", "l", "_", "p", "c", "t">> >>
\* fallback_fieldnames, lines 880-887
fallback_fieldnames == <<
    <<"t", "i", "m", "e", "s", "t", "a", "m", "p">>,
    <<"g", "p", "u", "_", "i", "n", "d", "e", "x">>,
    <<"u", "t", "i", "l", "i", "z", "a", "t", "i", "o", "n", ".", "g", "p", "u">>,
    <<"u", "t", "i", "l", "i", "z", "a", "t", "i", "o", "n", ".", "m", "e", "m", "o", "r", "y">>,
    <<"m", "e", "m", "o", "r", "y", ".", "u", "s", "e", "d">>,
    <<"m", "e", "m", "o", "r", "y", ".", "t", "o", "t", "a", "l">>,
    <<"t", "e", "m", "p", "e", "r", "a", "t", "u", "r", "e", ".", "g", "p", "u">>,
    <<"p", "o", "w", "e", "r", ".", "d", "r", "a", "w">>,
    <<"c", "l", "o", "c", "k", "s", ".", "c", "u", "r", "r", "e", "n", "t", ".", "g", "r", "a", "p", "h", "i", "c", "s">>,
    <<"c", "l", "o", "c", "k", "s", ".", "c", "u", "r", "r", "e", "n", "t", ".", "m", "e", "m", "o", "r", "y">>,
    <<"c", "l", "o", "c", "k", "s", ".", "c", "u", "r", "r", "e", "n", "t", ".", "s", "m">>,
    <<"f", "a", "n", ".", "s", "p", "e", "e", "d">>,
    <<"p", "c", "i", "e", ".", "l", "i", "n", "k", ".", "g", "e", "n", ".", "c", "u", "r", "r", "e", "n", "t">>,
    <<"p", "c", "i", "e", ".", "l", "i", "n", "k", ".", "w", "i", "d", "t", "h", ".", "c", "u", "r", "r", "e", "n", "t">>,
    <<"e", "n", "c", "o", "d", "e", "r", ".", "s", "t", "a", "t", "s", ".", "s", "e", "s", "s", "i", "o", "n", "C", "o", "u", "n", "t">>,
    <<"e", "n", "c", "o", "d", "e", "r", ".", "s", "t", "a", "t", "s", ".", "a", "v", "e", "r", "a", "g", "e", "F", "p", "s">>,
    <<"d", "e", "c", "o", "d", "e", "r", ".", "s", "t", "a", "t", "s", ".", "s", "e", "s", "s", "i", "o", "n", "C", "o", "u", "n", "t">>,
    <<"d", "e", "c", "o", "d", "e", "r", ".", "s", "t", "a", "t", "s", ".", "a", "v", "e", "r", "a", "g", "e", "F", "p", "s">> >>

UpperLetters == <<"A", "B", "C", "D", "E", "F", "G", "H", "I", "J", "K", "L", "M", "N", "O", "P", "Q", "R", "S", "T", "U", "V", "W", "X", "Y", "Z">>
LowerLetters == <<"a", "b", "c", "d", "e", "f", "g", "h", "i", "j", "k", "l", "m", "n", "o", "p", "q", "r", "s", "t", "u", "v", "w", "x", "y", "z">>
\* str.lower() and str.upper(), character by character
LowerChar(c) ==
    IF \E k \in 1..26 : UpperLetters[k] = c
    THEN LowerLetters[CHOOSE k \in 1..26 : UpperLetters[k] = c] ELSE c
UpperChar(c) ==
    IF \E k \in 1..26 : LowerLetters[k] = c
    THEN UpperLetters[CHOOSE k \in 1..26 : LowerLetters[k] = c] ELSE c
Lower(s) == [i \in 1..Len(s) |-> LowerChar(s[i])]
Upper(s) == [i \in 1..Len(s) |-> UpperChar(s[i])]

\* `cand in col`: substring test
Contains(cand, col) ==
    \E i \in 0..(Len(col) - Len(cand)) : SubSeq(col, i + 1, i + Len(cand)) = cand

\* candidate lists of lines 1308-1310
UtilCandidates == << <<"u", "t", "i", "l">>, <<"u", "t", "i", "l", "i", "z", "a", "t", "i", "o", "n">>, <<"u", "t", "i", "l", "_", "g", "p", "u">>, <<"u", "t", "i", "l", "i", "z", "a", "t", "i", "o", "n", ".", "g", "p", "u">> >>
TempCandidates == << <<"t", "e", "m", "p">>, <<"t", "e", "m", "p", "e", "r", "a", "t", "u", "r", "e">> >>
PowerCandidates == << <<"p", "o", "w", "e", "r">>, <<"p", "o", "w", "e", "r", ".", "d", "r", "a", "w">>, <<"p", "o", "w", "e", "r", "_", "w">> >>

\* lines 1301-1306: the first column, in file order, that contains the first candidate
\* any column contains; None when no candidate is contained in any column
first_col_like_caseSensitive(columns, candidates) ==
    LET Hit(c) == {k \in 1..Len(columns) : Contains(candidates[c], columns[k])}
        RECURSIVE Search(_)
        Search(c) ==
            IF c > Len(candidates) THEN None
            ELSE IF Hit(c) # {}
                 THEN columns[CHOOSE k \in Hit(c) : \A j \in Hit(c) : k <= j]
                 ELSE Search(c + 1)
    IN Search(1)
first_col_like(columns, candidates) ==
    LET Hit(c) == {k \in 1..Len(columns) : Contains(candidates[c], Lower(columns[k]))}
        RECURSIVE Search(_)
        Search(c) ==
            IF c > Len(candidates) THEN None
            ELSE IF Hit(c) # {}
                 THEN columns[CHOOSE k \in Hit(c) : \A j \in Hit(c) : k <= j]
                 ELSE Search(c + 1)
    IN Search(1)

\* letter cases in which a header can come: as the sampler writes it, in upper
\* case, and with the first letter and everything after the first separator in upper
\* case (util_gpu_pct, UTIL_GPU_PCT, Util_GPU_PCT; Utilization.GPU)
CaseModes == {"asis", "upper", "title"}
FirstSep(s) ==
    IF \E i \in 1..Len(s) : s[i] \in {".", "_"}
    THEN CHOOSE i \in 1..Len(s) : s[i] \in {".", "_"} /\ \A j \in 1..(i - 1) : s[j] \notin {".", "_"}
    ELSE Len(s) + 1
Recase(mode, s) ==
    CASE mode = "upper" -> Upper(s)
      [] mode = "title" -> [i \in 1..Len(s) |->
                              IF i = 1 \/ i > FirstSep(s) THEN UpperChar(s[i]) ELSE s[i]]
      [] OTHER -> s
RecaseAll(mode, columns) == [k \in 1..Len(columns) |-> Recase(mode, columns[k])]
\* a header none of whose columns matches a candidate
OtherColumns == << <<"t">>, <<"x">> >>

\* lines 1308-1310: the three columns resolved for a header
resolve(columns) ==
    [util_col |-> first_col_like(columns, UtilCandidates),
     temp_col |-> first_col_like(columns, TempCandidates),
     power_col |-> first_col_like(columns, PowerCandidates)]
\* the headers of the telemetry sinks of the model, with their resolution
KnownHeaders ==
    {RecaseAll(m, h) : m \in CaseModes, h \in {fieldnames, fallback_fieldnames}}
        \cup {OtherColumns}
Resolved == [h \in KnownHeaders |-> resolve(h)]

(* ---- telemetry aggregate of one run, lines 1279-1323 ---- *)
Absent == <<"absent">>
NaN == <<"NaN">>
\* payload['telemetry'][f.name] = None
NullTelemetry == [null |-> TRUE, avg_util |-> Absent, max_temp |-> Absent,
                  avg_power |-> Absent]


(* ---- files of RESULTS_DIR and TELEMETRY_DIR ---- *)
\* a directory is a function from file names to file contents; a file name is its
\* fixed part and the run-identity fragment `ts` embedded in it (lines 996-1007, 1182)
ResultName(id) == [prefix |-> "benchmark_results_", id |-> id]
TelemetryName(id) == [prefix |-> "gpu_usage_", id |-> id]
DashboardName(id) == [prefix |-> "benchmark_master_dashboard_", id |-> id]
NoFiles == [n \in {} |-> None]

\* line 1212: sorted(results_dir.glob('benchmark_results_*.csv'))
glob_everything(dir) ==
    LET ids == SortedSeq({n.id : n \in DOMAIN dir})
    IN [i \in 1..Len(ids) |-> CHOOSE n \in DOMAIN dir : n.id = ids[i]]
glob(dir) ==
    LET ids == SortedSeq({n.id : n \in {x \in DOMAIN dir : x.prefix = "benchmark_results_"}})
    IN [i \in 1..Len(ids) |-> ResultName(ids[i])]

\* lines 1280-1281: the telemetry file of a result file, by its run-identity fragment
TelemetryFileOf_firstRun(f) == TelemetryName(1)
TelemetryFileOf(f) == TelemetryName(f.id)

\* pd.read_csv of a result sink: it raises, or it gives the rows, which carry the
\* columns timestamp, model, test_case, duration_s only if the header has them
read_csv(content) ==
    [error |-> content.kind = "unreadable",
     has_columns |-> content.kind = "csv",
     rows |-> IF content.kind = "csv" THEN content.rows ELSE <<>>]

\* a row of a result sink as the Aggregator uses it; pd.to_datetime(errors='coerce')
\* turns a timestamp that cannot be parsed into NaT
ResultRow(ts, model, test_case, duration_s) ==
    [timestamp |-> ts, model |-> model, test_case |-> test_case, duration_s |-> duration_s]

\* F applied to the value of v
Apply(v, F(_)) == CHOOSE r \in {F(x) : x \in {v}} : TRUE

RECURSIVE SumOver(_, _)
SumOver(rows, I) ==
    IF I = {} THEN 0
    ELSE LET i == CHOOSE x \in I : TRUE
         IN rows[i].duration_s + SumOver(rows, I \ {i})

\* a mean is kept as a fraction in lowest terms, <<numerator, denominator>>
RECURSIVE GCD(_, _)
GCD(a, b) == IF b = 0 THEN a ELSE GCD(b, a % b)
Ratio(sum, n) ==
    IF n = 0 THEN <<0, 0>>
    ELSE Apply(GCD(sum, n), LAMBDA g : <<sum \div g, n \div g>>)
Mean(rows, I) == Apply(SumOver(rows, I), LAMBDA sum : Ratio(sum, Cardinality(I)))

\* lines 1250-1254: one group (run_file, test_case, model) of all_res; count counts the
\* timestamps that are not NaT
GroupRows_ignoreModel(rows, test_case, model) ==
    {i \in 1..Len(rows) : rows[i].test_case = test_case}
GroupRows(rows, test_case, model) ==
    {i \in 1..Len(rows) : rows[i].test_case = test_case /\ rows[i].model = model}
CountTimestamps(rows, I) == Cardinality({i \in I : rows[i].timestamp = "iso"})
GroupEntry(rows, test_case, model) ==
    Apply(GroupRows(rows, test_case, model), LAMBDA I :
       [model |-> model,
        duration_s |-> Mean(rows, I),
        start_time |-> IF \E i \in I : rows[i].timestamp = "iso" THEN "iso" ELSE "NaT",
        count |-> CountTimestamps(rows, I),
        has_telemetry |-> FALSE,
        telemetry |-> NullTelemetry])

\* lines 1262-1276: the test cases of one run, each with its models in sorted order
TestsOfRun(rows) ==
    LET cases == {rows[i].test_case : i \in 1..Len(rows)}
    IN [t \in cases |->
          Apply(SortedSeq({rows[i].model :
                             i \in {j \in 1..Len(rows) : rows[j].test_case = t}}),
                LAMBDA ms : [k \in 1..Len(ms) |-> GroupEntry(rows, t, ms[k])])]

ColumnIndex(columns, name) ==
    CHOOSE k \in 1..Len(columns) :
        columns[k] = name /\ \A j \in 1..(k - 1) : columns[j] # name
RECURSIVE ColSum(_, _, _)
ColSum(rows, k, n) == IF n = 0 THEN 0 ELSE rows[n][k] + ColSum(rows, k, n - 1)
\* tdf[col].mean(skipna=True) and tdf[col].max(skipna=True)
ColMean(rows, k) ==
    IF rows = <<>> THEN NaN
    ELSE Apply(ColSum(rows, k, Len(rows)), LAMBDA sum : <<"mean">> \o Ratio(sum, Len(rows)))
ColMax(rows, k) ==
    IF rows = <<>> THEN NaN
    ELSE <<"max", CHOOSE v \in {rows[i][k] : i \in 1..Len(rows)} :
                     \A i \in 1..Len(rows) : rows[i][k] <= v>>

\* lines 1295-1319: telemetry_agg of a telemetry sink that was read
telemetry_agg(content) ==
    Apply(IF content.columns \in KnownHeaders THEN Resolved[content.columns]
          ELSE resolve(content.columns),
          LAMBDA r :
       [null |-> FALSE,
        avg_util |-> IF r.util_col = None THEN Absent
                     ELSE Apply(ColumnIndex(content.columns, r.util_col),
                                LAMBDA k : ColMean(content.rows, k)),
        max_temp |-> IF r.temp_col = None THEN Absent
                     ELSE Apply(ColumnIndex(content.columns, r.temp_col),
                                LAMBDA k : ColMax(content.rows, k)),
        avg_power |-> IF r.power_col = None THEN Absent
                      ELSE Apply(ColumnIndex(content.columns, r.power_col),
                                 LAMBDA k : ColMean(content.rows, k))])

\* lines 1279-1323: the entry of one result file in payload['telemetry']
RunTelemetry(f, tdir) ==
    IF TelemetryFileOf(f) \in DOMAIN tdir
    THEN IF tdir[TelemetryFileOf(f)].kind = "unreadable" THEN NullTelemetry
         ELSE Apply(tdir[TelemetryFileOf(f)], LAMBDA content : telemetry_agg(content))
    ELSE NullTelemetry

\* `if run_tel:` of line 1331: None and the empty dict are false
Truthy(tel) ==
    ~tel.null /\ (tel.avg_util # Absent \/ tel.max_temp # Absent \/ tel.avg_power # Absent)

\* lines 1328-1334: give every model entry of one run the run's telemetry aggregate
Attach(tests, run_tel) ==
    [t \in DOMAIN tests |->
       [k \in DOMAIN tests[t] |->
          [tests[t][k] EXCEPT !.has_telemetry = TRUE,
                              !.telemetry = IF Truthy(run_tel) THEN run_tel
                                            ELSE NullTelemetry]]]

\* what a call of generate_master_dashboard does: it raises, it returns without
\* writing anything, or it writes the document with the payload
Outcome(status) == [status |-> status, runs |-> NoFiles, telemetry |-> NoFiles]
NoPayload == Outcome("none")

\* lines 1197-1433.  The document is built and written, and the function returns,
\* inside the first iteration of the loop of line 1326: only the entries of the first
\* run of payload['runs'] have got their telemetry by then, and with no run in
\* payload['runs'] nothing is written.
generate_master_dashboard(rdir, tdir) ==
  Apply(glob(rdir), LAMBDA files :
    LET frame(i) == read_csv(rdir[files[i]])
        Readable == {i \in 1..Len(files) : ~frame(i).error}
        WithColumns == {i \in Readable : frame(i).has_columns}
        WithRows == {i \in WithColumns : frame(i).rows # <<>>}
        first == CHOOSE i \in WithRows : \A j \in WithRows : i <= j
        tel == [f \in {files[i] : i \in 1..Len(files)} |-> RunTelemetry(f, tdir)]
        index(f) == CHOOSE i \in WithRows : files[i] = f
    IN IF Len(files) = 0 THEN Outcome("raised")
       ELSE IF Readable = {} THEN Outcome("raised")
       ELSE IF WithColumns = {} THEN Outcome("raised")
       ELSE IF WithRows = {} THEN Outcome("nothing")
       ELSE [status |-> "written",
             runs |-> [f \in {files[i] : i \in WithRows} |->
                         Apply(frame(index(f)).rows, LAMBDA rows :
                            IF f = files[first]
                            THEN Apply(TestsOfRun(rows), LAMBDA tests :
                                    Apply(tel[f], LAMBDA run_tel : Attach(tests, run_tel)))
                            ELSE TestsOfRun(rows))],
             telemetry |-> tel])


\* no function is called on its own
NoCall == [command |-> "none"]
NoRet == [kind |-> "none"]

\* no row was handed to the writer
NoRow == [written |-> FALSE, zeroed |-> {}]

NoPairs == [m \in 1..NumModels, t \in TestNames |-> "none"]

InitRun ==
    /\ pc = "start" /\ mi = 0 /\ attempt = 0 /\ ping_ok = FALSE
    /\ test_files = <<>> /\ ti = 0 /\ polls = 0 /\ stopped = FALSE
    /\ stop_event = FALSE /\ results_exists = FALSE /\ result_headers = 0 /\ results = <<>>
    /\ spc = "idle" /\ header = "none" /\ device_count = 0 /\ dev = 0 /\ lines = 0
    /\ telemetry = <<>> /\ sinkOpen = FALSE /\ ticks = 0
    /\ failed = "none" /\ row = NoRow /\ same_load = FALSE
    /\ phase = [m \in 1..NumModels |-> "Pending"]
    /\ pulls = 0 /\ pings = 0 /\ pullFails = 0 /\ backoffs = 0 /\ pullOk = FALSE
    /\ verified = FALSE /\ stopReq = FALSE /\ test_rc = 0
    /\ ended = NoPairs
    /\ inFlight = FALSE
    /\ ticksAfterCancel = 0 /\ rowsAfterCancel = 0 /\ sleepsAfterCancel = 0
    /\ joinTimedOut = FALSE /\ aggCalls = 0 /\ aggSawOpen = FALSE /\ aggSawSampler = "none"
    /\ payload = NoPayload /\ prev_payload = NoPayload

\* a run over the whole model list, on a machine with at most one device, observed
\* for one sampling tick
Init ==
    /\ models = Models /\ tick_limit = 1 /\ device_limit = 1
    /\ call = NoCall /\ ret = NoRet
    /\ results_dir = NoFiles /\ telemetry_dir = NoFiles
    /\ InitRun

\* a run over a list of one model, on a machine with up to NumDevices devices,
\* observed for MaxTicks sampling ticks
InitSampler ==
    /\ models = <<1>> /\ tick_limit = MaxTicks /\ device_limit = NumDevices
    /\ call = NoCall /\ ret = NoRet
    /\ results_dir = NoFiles /\ telemetry_dir = NoFiles
    /\ InitRun

(* ======================= orchestrator ======================= *)
loopVars == <<mi, attempt, ping_ok, test_files, ti, polls, stopped>>
histVars == <<pulls, pings, pullFails, backoffs, pullOk, verified, stopReq, test_rc, ended>>
aggVars == <<joinTimedOut, aggCalls, aggSawOpen, aggSawSampler>>

\* line 1008: threading.Event() creates the flag unset
NewEvent_set == TRUE
NewEvent == FALSE

\* lines 992-1018: create the result sink with its header, start the sampler thread
StartRun ==
    /\ pc = "start"
    /\ results_exists' = TRUE
    /\ result_headers' = IF results_exists THEN result_headers ELSE 1
    /\ stop_event' = NewEvent
    /\ spc' = "init"
    /\ pc' = "loop"
    /\ UNCHANGED <<envVars, dirVars, loopVars, histVars, aggVars, results, phase,
                   header, device_count, dev, lines, telemetry, sinkOpen, ticks,
                   failed, row, same_load, ticksAfterCancel, rowsAfterCancel, sleepsAfterCancel,
                   inFlight>>

\* lines 1027-1046: the for loop takes the next model
NextModel ==
    /\ pc = "loop" /\ mi < Len(models)
    /\ mi' = mi + 1
    /\ ping_ok' = FALSE /\ attempt' = 0
    /\ phase' = [phase EXCEPT ![mi + 1] = "Pulling"]
    /\ pulls' = 0 /\ pings' = 0 /\ pullFails' = 0 /\ backoffs' = 0 /\ pullOk' = FALSE
    /\ verified' = FALSE /\ stopReq' = FALSE /\ test_rc' = 0
    /\ pc' = IF InRetryRange(0) THEN "pull" ELSE "ready"
    /\ UNCHANGED <<envVars, dirVars, test_files, ti, polls, stopped, ended, aggVars, stop_event,
                   results_exists, result_headers, results, samplerVars, inFlight>>

\* `continue` / end of an iteration of the retry loop, after time.sleep(PING_RETRY_WAIT)
RetryNext ==
    /\ backoffs' = backoffs + 1
    /\ attempt' = attempt + 1
    /\ IF InRetryRange(attempt + 1)
       THEN pc' = "pull" /\ phase' = [phase EXCEPT ![mi] = "Pulling"]
       ELSE pc' = "ready" /\ UNCHANGED phase

\* line 1052: what the loop can see of a pull, over all the outcomes of the command
PullResults ==
    {[ok |-> ~c.timedOut /\ c.rc = 0, failed |-> PullFailed(ollama_exec(c))] :
        c \in Outcomes("pull")}

\* lines 1047-1056: pull the model
Pull ==
    /\ pc = "pull"
    /\ \E e \in PullResults :
         /\ pulls' = pulls + 1
         /\ pullOk' = e.ok
         /\ IF e.failed
            THEN /\ pullFails' = pullFails + 1
                 /\ RetryNext
            ELSE /\ pc' = "ping"
                 /\ phase' = [phase EXCEPT ![mi] = "Verifying"]
                 /\ UNCHANGED <<pullFails, attempt, backoffs>>
    /\ UNCHANGED <<envVars, dirVars, mi, ping_ok, test_files, ti, polls, stopped, pings, verified,
                   stopReq, test_rc, ended, aggVars, stop_event, results_exists, result_headers, results,
                   samplerVars, inFlight>>

\* line 1060: what the loop can see of a ping, over all the outcomes of the command
PingResults ==
    {[ok |-> ~c.timedOut /\ c.rc = 0 /\ \E k \in 1..Len(c.stdout) : c.stdout[k] # " ",
      answered |-> PingAnswered(ollama_exec(c))] : c \in Outcomes("ping")}

\* lines 1058-1067: ping the model with a simple prompt
Ping ==
    /\ pc = "ping"
    /\ \E e \in PingResults :
         /\ pings' = pings + 1
         /\ verified' = (verified \/ (pullOk /\ e.ok))
         /\ IF e.answered
            THEN /\ ping_ok' = TRUE
                 /\ pc' = "ready"
                 /\ phase' = [phase EXCEPT ![mi] = "Testing"]
                 /\ UNCHANGED <<attempt, backoffs>>
            ELSE /\ RetryNext
                 /\ UNCHANGED ping_ok
    /\ UNCHANGED <<envVars, dirVars, mi, test_files, ti, polls, stopped, pulls, pullFails, pullOk,
                   stopReq, test_rc, ended, aggVars, stop_event, results_exists, result_headers, results,
                   samplerVars, inFlight>>

\* lines 1069-1083: give the model up, or list the test files.
\* The retry loop is over: its loop variable is dead and leaves the state, and the
\* counts of the loading commands are kept only for a model that was given up.
\* lines 1076-1083: where the controller goes with the listing of the test files:
\* without files it logs, completes the progress bar and does `continue`
AfterListing_aborts(files) == IF files = <<>> THEN "raised" ELSE "test"
AfterListing(files) == IF files = <<>> THEN "loop" ELSE "test"

ModelReady ==
    /\ pc = "ready"
    /\ attempt' = 0
    /\ IF ~ping_ok
       THEN /\ phase' = [phase EXCEPT ![mi] = "Failed"]
            /\ pc' = "loop"
            /\ UNCHANGED <<test_files, ti, pulls, pings, pullFails, backoffs>>
       ELSE /\ pulls' = 0 /\ pings' = 0 /\ pullFails' = 0 /\ backoffs' = 0
            /\ \E dir \in {{}, TestNames} :
                 /\ test_files' = SortedSeq(dir)
                 /\ pc' = AfterListing(test_files')
                 /\ IF test_files' = <<>>
                    THEN /\ phase' = [phase EXCEPT ![mi] = "Failed"]
                         /\ UNCHANGED ti
                    ELSE /\ ti' = 1
                         /\ UNCHANGED phase
    /\ UNCHANGED <<envVars, dirVars, mi, ping_ok, polls, stopped, pullOk, verified, stopReq, test_rc, ended,
                   aggVars, stop_event, results_exists, result_headers, results, samplerVars, inFlight>>

\* lines 1085-1097: a new iteration reads the prompt (outside the try) and spawns the
\* test process
TestStart ==
    /\ pc = "test"
    /\ \E readable \in BOOLEAN :
         pc' = IF readable THEN "running" ELSE "raised"
    /\ test_rc' = 0
    /\ UNCHANGED <<envVars, dirVars, loopVars, pulls, pings, pullFails, backoffs, pullOk, verified,
                   stopReq, ended, aggVars, stop_event, results_exists, result_headers, results,
                   phase, samplerVars, inFlight>>

\* `for tfile in test_files`: is there an iteration after the one of file number i of
\* n, whose test call left the exit status status; the status is not looked at
MoreTests_untilFailure(status, i, n) == status = 0 /\ i < n
MoreTests(status, i, n) == i < n

\* line 1148 and the for loop: pause, then the next test file or the stop; the locals
\* of the iteration are dead after the last one
TestNext ==
    IF MoreTests(test_rc', ti, Len(test_files))
    THEN ti' = ti + 1 /\ pc' = "test"
    ELSE pc' = "stop" /\ UNCHANGED ti

\* lines 1117-1122 and 1141-1146: header rows of the sink after the record is written,
\* with to_csv(mode='a', header=False) if the sink exists and with to_csv() if not
HeaderRows_always(exists, hdrs) == hdrs + 1
HeaderRows(exists, hdrs) == IF exists THEN hdrs ELSE 1

\* lines 1097-1148: the test call returns or times out, the record is appended
TestEnd ==
    /\ pc = "running"
    /\ result_headers' = HeaderRows(results_exists, result_headers)
    /\ results_exists' = TRUE
    /\ \E c \in TestCompletions, d \in TestDurations, e \in TimeoutDurations :
         LET tname == test_files[ti] IN
         IF c.timedOut
         THEN /\ results' = Append(results, TimeoutRecord(models[mi], tname, e))
              /\ ended' = [ended EXCEPT ![mi, tname] = "timeout"]
              /\ UNCHANGED test_rc
         ELSE /\ results' = Append(results, CompletedRecord(models[mi], tname, c.stdout, d))
              /\ ended' = [ended EXCEPT ![mi, tname] = "completed"]
              /\ test_rc' = c.rc
    /\ TestNext
    /\ UNCHANGED <<envVars, dirVars, mi, attempt, ping_ok, test_files, polls, stopped, pulls, pings,
                   pullFails, backoffs, pullOk, verified, stopReq, aggVars, stop_event,
                   phase, samplerVars, inFlight>>

\* line 1097 raising anything but TimeoutExpired (spawn or decoding error): not caught
TestError ==
    /\ pc = "running"
    /\ ended' = [ended EXCEPT ![mi, test_files[ti]] = "error"]
    /\ pc' = "raised"
    /\ UNCHANGED <<envVars, dirVars, loopVars, pulls, pings, pullFails, backoffs, pullOk, verified, stopReq, test_rc,
                   aggVars, stop_event, results_exists, result_headers, results, phase, samplerVars,
                   inFlight>>

\* lines 1150-1155: stop request, whatever its exit status
StopModel ==
    /\ pc = "stop"
    /\ \E c \in Outcomes("stop") : ollama_exec(c).rc \in ExitCodes
    /\ stopReq' = TRUE /\ test_rc' = 0
    /\ stopped' = FALSE /\ polls' = 0
    /\ phase' = [phase EXCEPT ![mi] = "Stopping"]
    /\ pc' = "verify"
    /\ UNCHANGED <<envVars, dirVars, mi, attempt, ping_ok, test_files, ti, pulls, pings, pullFails, backoffs,
                   pullOk, verified, ended, aggVars, stop_event, results_exists, result_headers,
                   results, samplerVars, inFlight>>

\* `for _ in range(6)`: is there an iteration after the one that makes p + 1 polls
PollAgain_oneMore(p) == p + 1 < STOP_POLLS + 1
PollAgain(p) == p + 1 < STOP_POLLS

\* lines 1158-1159: what a poll can conclude, over all the outcomes of the listing
PollResults == {StopConfirmed(ollama_exec(c).out) : c \in PsCompletions}

\* lines 1156-1161: one poll of the active-model listing; polls counts the iterations
\* done while the loop runs
VerifyPoll ==
    /\ pc = "verify"
    /\ \E confirmed \in PollResults :
         /\ IF confirmed
            THEN stopped' = TRUE /\ pc' = "cooldown" /\ polls' = 0
            ELSE /\ UNCHANGED stopped
                 /\ IF PollAgain(polls)
                    THEN pc' = "verify" /\ polls' = polls + 1
                    ELSE pc' = "cooldown" /\ polls' = 0
    /\ UNCHANGED <<envVars, dirVars, mi, attempt, ping_ok, test_files, ti, histVars, aggVars, stop_event,
                   results_exists, result_headers, results, phase, samplerVars, inFlight>>

\* lines 1163-1172: cooldown, end of the iteration for this model
\* The locals of the test loop and of the stop verification are dead from here on.
Cooldown ==
    /\ pc = "cooldown"
    /\ phase' = [phase EXCEPT ![mi] = "Done"]
    /\ test_files' = <<>> /\ ti' = 0 /\ stopped' = FALSE
    /\ pc' = "loop"
    /\ UNCHANGED <<envVars, dirVars, mi, attempt, ping_ok, polls, histVars, aggVars, stop_event, results_exists, result_headers,
                   results, samplerVars, inFlight>>

\* sampler positions in which a sampling tick is in flight
TickPositions == {"p_tick", "f_query", "f_write"}

\* line 1175: the model loop is exhausted, set the cancellation flag
Finalize ==
    /\ pc = "loop" /\ mi >= Len(models)
    /\ stop_event' = TRUE
    /\ inFlight' = (spc \in TickPositions)
    /\ pc' = "join"
    /\ UNCHANGED <<envVars, dirVars, loopVars, histVars, aggVars, results_exists, result_headers, results, phase,
                   samplerVars>>

\* t_thread.join(timeout=5): can the call return while the sampler is at position s
JoinReturns_noTimeout(s, slow) == s = "stopped"
JoinReturns(s, slow) == s = "stopped" \/ slow

\* line 1176: wait for the sampler, at most 5 seconds
Join ==
    /\ pc = "join"
    /\ JoinReturns(spc, inFlight)
    /\ joinTimedOut' = (spc # "stopped")
    /\ pc' = "agg"
    /\ UNCHANGED <<envVars, dirVars, loopVars, histVars, aggCalls, aggSawOpen, aggSawSampler, stop_event,
                   results_exists, result_headers, results, phase, samplerVars, inFlight>>

\* the run-identity fragment `ts` of this run (line 996)
CurrentRun == 0

\* the result sink of this run as a file: DataFrame.to_csv wrote the header and one
\* line per record, start_time.isoformat() as its timestamp
ResultSinkFile ==
    [kind |-> "csv",
     rows |-> [i \in 1..Len(results) |->
                 ResultRow("iso", results[i].model, results[i].test_case,
                           results[i].duration_s)]]
\* the telemetry sink of this run as a file; the reading of a column is kept as the
\* position of the column
TelemetrySinkFile ==
    [kind |-> "csv",
     columns |-> IF header = "primary" THEN fieldnames ELSE fallback_fieldnames,
     rows |-> [i \in 1..Len(telemetry) |-> [c \in 1..telemetry[i].ncols |-> c]]]
ResultsDirNow ==
    IF results_exists THEN (ResultName(CurrentRun) :> ResultSinkFile) @@ results_dir
    ELSE results_dir
TelemetryDirNow ==
    IF header # "none" THEN (TelemetryName(CurrentRun) :> TelemetrySinkFile) @@ telemetry_dir
    ELSE telemetry_dir
\* the document written to out_html_path (line 1432)
Document == [kind |-> "unreadable"]

\* lines 1177-1189: generate_master_dashboard, any exception of it caught
Aggregate ==
    /\ pc = "agg"
    /\ aggCalls' = aggCalls + 1
    /\ aggSawOpen' = sinkOpen
    /\ aggSawSampler' = spc
    /\ \E rdir \in {ResultsDirNow}, tdir \in {TelemetryDirNow} :
       \E out \in {generate_master_dashboard(rdir, tdir)} :
         /\ payload' = out
         /\ prev_payload' = payload
         /\ results_dir' = IF out.status = "written"
                           THEN (DashboardName(CurrentRun) :> Document) @@ results_dir
                           ELSE results_dir
    /\ pc' = "done"
    /\ UNCHANGED <<envVars, telemetry_dir, loopVars, histVars, joinTimedOut, stop_event, results_exists, result_headers,
                   results, phase, samplerVars, inFlight>>

OrchNext ==
    \/ StartRun \/ NextModel \/ Pull \/ Ping \/ ModelReady
    \/ TestStart \/ TestEnd \/ TestError
    \/ StopModel \/ VerifyPoll \/ Cooldown
    \/ Finalize \/ Join \/ Aggregate

(* ======================= sampler thread ======================= *)
orchOnly == <<pc, mi, attempt, ping_ok, test_files, ti, polls, stopped, stop_event,
              results_exists, result_headers, results, phase, pulls, pings, pullFails, backoffs, pullOk,
              verified, stopReq, test_rc, ended, joinTimedOut, aggCalls, aggSawOpen,
              aggSawSampler, inFlight, envVars, dirVars>>

\* `while not stop_event.is_set()`: does the loop start another tick
LoopContinues_ignoresFlag(flag) == TRUE
LoopContinues(flag) == ~flag

\* number of columns of a row: writer.writerow(dict of the fieldnames), line 848-867
PrimaryRow(tick, i) ==
    [tick |-> tick, gpu_index |-> i, ncols |-> NUM_FIELDS, backend |-> "primary"]
\* lines 899-916: --query-gpu names NUM_FIELDS fields, in the order of the columns of
\* fallback_fieldnames (timestamp, index, utilization.gpu, ...). A value the tool
\* reports is kept as the position of its field in the query; a value that is not a
\* reported one (datetime.now(), the default '0') is kept as NotReported
NotReported == 0
\* a line of the output of --format=csv,noheader,nounits, after split(','): one
\* part per queried field, the timestamp being one part
QueryLine == [k \in 1..NUM_FIELDS |-> k]
\* lines 933-952: the 18 values written for a line of at least 18 parts. The first is
\* datetime.now().isoformat(); the value of column c is parts[c], counted from zero,
\* and '0' when the line has no such part
FallbackParse(parts) ==
    [c \in 1..NUM_FIELDS |->
        IF c = 1 THEN NotReported
        ELSE IF Len(parts) > c THEN parts[c + 1]
        ELSE NotReported]
\* the number the tool reports for the queried field at position k in line number i:
\* the index of the device, and for the other fields a reading that is the same for
\* all devices when they are under the same load
Reading(k, i) == IF k = 2 \/ ~same_load THEN i ELSE 0
\* the row of the f-string of line 952, for line number i of the query output
FallbackRow(tick, i) ==
    [tick |-> tick, line |-> i, gpu_index |-> Reading(FallbackParse(QueryLine)[2], i),
     ncols |-> NUM_FIELDS, backend |-> "fallback",
     values |-> FallbackParse(QueryLine)]

\* queries of one device that are made outside any try of their own (lines 792-797)
\* and inside one (lines 800-846)
UnguardedQueries == {"utilization"}
GuardedQueries == {"power", "pcie_rx"}
Queries == UnguardedQueries \cup GuardedQueries

\* the fields an `except:` of lines 802-846 sets to 0 when query q raises: the power
\* query has a try of its own (lines 800-803), the two PCIe queries share one (lines
\* 832-837)
Zeroed(q) ==
    CASE q = "power" -> {"power_W"}
      [] q = "pcie_rx" -> {"pcie_tx_MBps", "pcie_rx_MBps"}
      [] OTHER -> {}

\* the position after `except Exception as e_inner` of a tick (lines 868-872, 955-958)
OnTickError_fallsBack(backend) == "fb_init"
OnTickError(backend) == IF backend = "primary" THEN "p_sleep" ELSE "f_sleep"

CountIf(flag, n) == IF flag THEN n + 1 ELSE n

\* lines 769-787 (and the jump to line 874): initialise the primary backend, open the sink
SamplerInit ==
    /\ spc = "init"
    /\ \E initOk \in BOOLEAN, openOk \in BOOLEAN, logOk \in BOOLEAN, n \in 0..device_limit :
         IF initOk /\ openOk
         THEN /\ device_count' = IF logOk THEN n ELSE 0   \* not read by the fallback
              /\ header' = "primary"
              /\ IF logOk
                 THEN sinkOpen' = TRUE /\ spc' = "p_check"
                 ELSE sinkOpen' = FALSE /\ spc' = "fb_init"
         ELSE /\ spc' = "fb_init"
              /\ UNCHANGED <<device_count, header, sinkOpen>>
    /\ UNCHANGED <<orchOnly, dev, lines, telemetry, ticks, failed, row, same_load, ticksAfterCancel,
                   rowsAfterCancel, sleepsAfterCancel>>

\* line 789: loop condition of the primary loop; leaving it closes the sink
PrimaryCheck ==
    /\ spc = "p_check"
    /\ IF LoopContinues(stop_event)
       THEN /\ ticks < tick_limit
            /\ ticks' = ticks + 1
            /\ dev' = 0
            /\ ticksAfterCancel' = CountIf(stop_event, ticksAfterCancel)
            /\ spc' = IF device_count > 0 THEN "p_tick" ELSE "p_sleep"
            /\ UNCHANGED sinkOpen
       ELSE /\ sinkOpen' = FALSE
            /\ spc' = "finally"
            /\ UNCHANGED <<ticks, dev, ticksAfterCancel>>
    /\ UNCHANGED <<orchOnly, failed, row, same_load, header, device_count, lines, telemetry, rowsAfterCancel,
                   sleepsAfterCancel>>

\* lines 791-870: query one device and write its row. A query of lines 800-846 that
\* raises leaves 0 in its fields; a query of lines 792-797 that raises is caught at
\* line 868 only, outside the device loop, and ends the tick.
\* The loop variable is dead once the tick is over.
PrimaryDevice ==
    /\ spc = "p_tick"
    /\ \E q \in Queries \cup {"none"} :
         /\ failed' = q
         /\ IF q \notin UnguardedQueries
            THEN /\ row' = [written |-> TRUE, zeroed |-> Zeroed(q)]
                 /\ telemetry' = Append(telemetry, PrimaryRow(ticks, dev))
                 /\ rowsAfterCancel' = CountIf(stop_event, rowsAfterCancel)
                 /\ IF dev + 1 < device_count
                    THEN dev' = dev + 1 /\ spc' = "p_tick"
                    ELSE dev' = 0 /\ spc' = "p_sleep"
            ELSE /\ row' = NoRow
                 /\ spc' = OnTickError("primary") /\ dev' = 0
                 /\ UNCHANGED <<telemetry, rowsAfterCancel>>
    /\ UNCHANGED <<orchOnly, same_load, header, device_count, lines, sinkOpen, ticks,
                   ticksAfterCancel, sleepsAfterCancel>>

\* line 872: time.sleep(GPU_LOG_INTERVAL)
PrimarySleep ==
    /\ spc = "p_sleep"
    /\ sleepsAfterCancel' = CountIf(stop_event, sleepsAfterCancel)
    /\ failed' = "none" /\ row' = NoRow
    /\ spc' = "p_check"
    /\ UNCHANGED <<orchOnly, same_load, header, device_count, dev, lines, telemetry, sinkOpen,
                   ticks, ticksAfterCancel, rowsAfterCancel>>

\* lines 874-891: write the fallback header (open, write, close)
\* whether the devices report the same utilization; a single device has nothing to
\* be compared with
LoadCases == IF device_limit > 1 THEN BOOLEAN ELSE {FALSE}

FallbackInit ==
    /\ spc = "fb_init"
    /\ \E openOk \in BOOLEAN :
         IF openOk
         THEN /\ header' = "fallback" /\ telemetry' = <<>> /\ spc' = "f_check"
              /\ same_load' \in LoadCases
         ELSE spc' = "finally" /\ UNCHANGED <<header, telemetry, same_load>>
    /\ UNCHANGED <<orchOnly, failed, row, device_count, dev, lines, sinkOpen, ticks,
                   ticksAfterCancel, rowsAfterCancel, sleepsAfterCancel>>

\* line 893: loop condition of the fallback loop
FallbackCheck ==
    /\ spc = "f_check"
    /\ IF LoopContinues(stop_event)
       THEN /\ ticks < tick_limit
            /\ ticks' = ticks + 1
            /\ ticksAfterCancel' = CountIf(stop_event, ticksAfterCancel)
            /\ spc' = "f_query"
       ELSE /\ spc' = "finally"
            /\ UNCHANGED <<ticks, ticksAfterCancel>>
    /\ UNCHANGED <<orchOnly, failed, row, same_load, header, device_count, dev, lines, telemetry, sinkOpen,
                   rowsAfterCancel, sleepsAfterCancel>>

\* lines 918-925: does the query give lines to parse, over all the outcomes of the command
QueryResults == {run_cmd(c).rc = 0 /\ run_cmd(c).out # <<>> : c \in Outcomes("query")}

\* lines 896-927: the query command returns; on output the sink is opened for append
FallbackQuery ==
    /\ spc = "f_query"
    /\ \E usable \in QueryResults,
          n \in 1..device_limit, openOk \in BOOLEAN :
         /\ IF usable /\ openOk
            THEN /\ lines' = n
                 /\ dev' = 0
                 /\ sinkOpen' = TRUE
                 /\ spc' = "f_write"
            ELSE /\ spc' = "f_sleep"
                 /\ UNCHANGED <<lines, dev, sinkOpen>>
    /\ UNCHANGED <<orchOnly, failed, row, same_load, header, device_count, telemetry, ticks, ticksAfterCancel,
                   rowsAfterCancel, sleepsAfterCancel>>

\* lines 928-952: one line of the query output; after the last the sink is closed
FallbackLine ==
    /\ spc = "f_write"
    /\ \E outcome \in {"row", "skip", "error"} :
         /\ IF outcome = "row"
            THEN /\ telemetry' = Append(telemetry, FallbackRow(ticks, dev))
                 /\ rowsAfterCancel' = CountIf(stop_event, rowsAfterCancel)
            ELSE UNCHANGED <<telemetry, rowsAfterCancel>>
         /\ IF outcome = "error" \/ dev + 1 >= lines
            THEN sinkOpen' = FALSE /\ spc' = OnTickError("fallback") /\ dev' = 0 /\ lines' = 0
            ELSE dev' = dev + 1 /\ UNCHANGED <<sinkOpen, spc, lines>>
    /\ UNCHANGED <<orchOnly, failed, row, same_load, header, device_count, ticks, ticksAfterCancel,
                   sleepsAfterCancel>>

\* line 958: time.sleep(GPU_LOG_INTERVAL)
FallbackSleep ==
    /\ spc = "f_sleep"
    /\ sleepsAfterCancel' = CountIf(stop_event, sleepsAfterCancel)
    /\ spc' = "f_check"
    /\ UNCHANGED <<orchOnly, failed, row, same_load, header, device_count, dev, lines, telemetry, sinkOpen,
                   ticks, ticksAfterCancel, rowsAfterCancel>>

\* lines 962-966: release the backend, any error swallowed; the thread ends
SamplerFinally ==
    /\ spc = "finally"
    /\ spc' = "stopped"
    /\ UNCHANGED <<orchOnly, failed, row, same_load, header, device_count, dev, lines, telemetry, sinkOpen,
                   ticks, ticksAfterCancel, rowsAfterCancel, sleepsAfterCancel>>

\* steps of the sampler that wait for the accelerator or for the query tool
SamplerQuery == PrimaryDevice \/ FallbackQuery
\* steps of the sampler that end by themselves
SamplerLocal ==
    \/ SamplerInit \/ PrimaryCheck \/ PrimarySleep
    \/ FallbackInit \/ FallbackCheck \/ FallbackLine \/ FallbackSleep
    \/ SamplerFinally
SamplerNext == SamplerQuery \/ SamplerLocal

Next == OrchNext \/ SamplerNext
Spec == Init /\ [][Next]_vars
SamplerSpec == InitSampler /\ [][Next]_vars

(* ======================= the Aggregator on its own ======================= *)
RunIds == 1..NumRuns

\* contents a result sink found in RESULTS_DIR can have
ResultSinkSamples ==
    {[kind |-> "unreadable", rows |-> <<>>],
     [kind |-> "foreign", rows |-> <<>>],
     [kind |-> "csv", rows |-> <<>>],
     [kind |-> "csv", rows |-> <<ResultRow("bad", 1, 1, 2), ResultRow("iso", 2, 1, 4)>>],
     [kind |-> "csv", rows |-> <<ResultRow("iso", 1, 2, 4), ResultRow("iso", 1, 1, 2),
                                 ResultRow("iso", 1, 1, 4)>>]}

\* contents a telemetry sink found in TELEMETRY_DIR can have
RowA == [c \in 1..NUM_FIELDS |-> c]
RowB == [c \in 1..NUM_FIELDS |-> 2 * c + 1]
TelemetrySinkSamples(mode) ==
    {[kind |-> "unreadable", columns |-> <<>>, rows |-> <<>>],
     [kind |-> "csv", columns |-> RecaseAll(mode, fieldnames), rows |-> <<RowA, RowB>>],
     [kind |-> "csv", columns |-> RecaseAll(mode, fallback_fieldnames), rows |-> <<RowB>>],
     [kind |-> "csv", columns |-> OtherColumns, rows |-> <<[c \in 1..2 |-> c]>>]}

ResultDirs ==
    UNION {[{ResultName(i) : i \in S} -> ResultSinkSamples] : S \in SUBSET RunIds}
TelemetryDirs(mode) ==
    UNION {[{TelemetryName(i) : i \in S} -> TelemetrySinkSamples(mode)] : S \in SUBSET RunIds}

\* no run is in progress; the directories hold the sinks of earlier runs
InitAgg ==
    /\ models = Models /\ tick_limit = 1 /\ device_limit = 1
    /\ call = NoCall /\ ret = NoRet
    /\ results_dir \in ResultDirs
    /\ \E mode \in CaseModes : telemetry_dir \in TelemetryDirs(mode)
    /\ InitRun

\* lines 1197-1433: generate_master_dashboard(RESULTS_DIR, TELEMETRY_DIR, out_html_path)
\* called over the directories as they are
MasterDashboard ==
    /\ pc = "start" /\ aggCalls < MaxCalls
    /\ aggCalls' = aggCalls + 1
    /\ \E out \in {generate_master_dashboard(results_dir, telemetry_dir)} :
         /\ payload' = out
         /\ prev_payload' = payload
         /\ results_dir' = IF out.status = "written"
                           THEN (DashboardName(CurrentRun) :> Document) @@ results_dir
                           ELSE results_dir
    /\ UNCHANGED <<envVars, telemetry_dir, pc, loopVars, histVars, joinTimedOut, aggSawOpen,
                   aggSawSampler, stop_event, results_exists, result_headers, results, phase,
                   samplerVars, inFlight>>

AggNext == MasterDashboard
AggSpec == InitAgg /\ [][AggNext]_vars

\* the orchestrator's commands return or time out; the sampler's sleeps, file
\* operations and loop tests end, its queries of the accelerator may hang
LiveSpec == Spec /\ WF_vars(OrchNext) /\ WF_vars(SamplerLocal)

(* ======================= one external command on its own ======================= *)
Hosts == {"127.0.0.1:11434", "10.0.0.2:11434"}
ModelNames == {"llama3", "phi3"}
\* what a test file can hold
Prompts == {<<"h", "i">>, <<"r", "m", " ", "-", "r", "f">>, <<"$", "(", "i", "d", ")">>}
\* what a model can write to stdout: nothing, a short answer, the word TIMEOUT, and
\* answers of MAX_OUTPUT_CHARS and of MAX_OUTPUT_CHARS + 1 characters
Chars(n) == [i \in 1..n |-> "x"]
LongOuts == {<<>>, <<"O", "K">>, TIMEOUT, Chars(MAX_OUTPUT_CHARS), Chars(MAX_OUTPUT_CHARS + 1)}
\* what the process of a command does: it exits with an output and a status, or it
\* is still running when the timeout, if there is one, expires
ShellCalls ==
    [command : ShellCommands \ {"ps"}, completion : Completions, execs : BOOLEAN,
     host : Hosts, model : ModelNames, prompt : {<<>>}]
    \cup [command : {"ps"}, completion : PsCompletions \cup {TimedOut}, execs : BOOLEAN,
          host : Hosts, model : ModelNames, prompt : {<<>>}]
TestCalls ==
    [command : {"test"},
     completion : [timedOut : {FALSE}, stdout : LongOuts, rc : ExitCodes] \cup {TimedOut},
     execs : {FALSE}, host : Hosts, model : ModelNames, prompt : Prompts]

\* the processes of a command. run_cmd passes the command line to subprocess.run with
\* shell=True: the child is /bin/sh, which runs sudo, which runs env, which becomes the
\* tool (a shell may replace itself by the only command of its command line: execs).
\* The test call starts sudo without a shell. The query of the sampler is the tool alone.
Tool(c) == IF c.command = "query" THEN "nvidia-smi" ELSE "ollama"
Chain(c) ==
    LET below == IF c.command = "query" THEN <<Tool(c)>> ELSE <<"sudo", Tool(c)>>
    IN IF c.command = "test" \/ c.execs THEN below ELSE <<"sh">> \o below
Spawned(c) == {Chain(c)[k] : k \in 1..Len(Chain(c))}
\* subprocess.run on TimeoutExpired: process.kill(), process.wait(), raise. The
\* signal goes to the child alone, not to its process group
Killed(c) == {Chain(c)[1]}
\* the processes of the command that can still run when the call returns: after a
\* timeout the ones that got no signal, each of which may or may not have ended
Survivors(c) == IF c.completion.timedOut THEN SUBSET (Spawned(c) \ Killed(c)) ELSE {{}}

\* lines 1092-1097: the argument list, the environment and the standard input of
\* the test call
TestCommand_interpolated(host, model, prompt) ==
    [argv |-> << <<"sudo">>, <<"-E">>, <<"-u">>, <<"ollama">>, <<"env">>,
                 <<"OLLAMA_HOST=", host>>, <<"/usr/local/bin/ollama">>, <<"run">>,
                 <<model>>, prompt >>,
     env |-> "inherited", stdin |-> <<>>]
TestCommand(host, model, prompt) ==
    [argv |-> << <<"sudo">>, <<"-E">>, <<"-u">>, <<"ollama">>, <<"env">>,
                 <<"OLLAMA_HOST=", host>>, <<"/usr/local/bin/ollama">>, <<"run">>,
                 <<model>> >>,
     env |-> "inherited", stdin |-> prompt]

\* a call of run_cmd, through ollama_exec or by the sampler, is about to be made
InitCmd ==
    /\ models = Models /\ tick_limit = 1 /\ device_limit = 1
    /\ results_dir = NoFiles /\ telemetry_dir = NoFiles
    /\ call \in ShellCalls \cup TestCalls
    /\ ret = NoRet
    /\ InitRun

\* lines 66-76: run_cmd returns. With timeout=None it returns only if the command ends
RunCmd ==
    /\ call.command \in ShellCommands /\ ret = NoRet
    /\ call.completion.timedOut => TimeoutOf(call.command).finite
    /\ \E r \in {run_cmd(call.completion)}, alive \in Survivors(call) :
         ret' = [kind |-> "run_cmd", out |-> r.out, rc |-> r.rc, alive |-> alive,
                 stopped |-> call.command = "ps" /\ StopConfirmed(r.out)]
    /\ UNCHANGED <<models, tick_limit, device_limit, call, orchVars, samplerVars, inFlight>>

\* lines 1090-1144: the test call returns or times out, and the record is built
RunTest ==
    /\ call.command = "test" /\ ret = NoRet
    /\ \E d \in TestDurations, e \in TimeoutDurations, alive \in Survivors(call) :
         ret' = [kind |-> "test",
                 cmd |-> TestCommand(call.host, call.model, call.prompt),
                 record |-> IF call.completion.timedOut
                            THEN TimeoutRecord(call.model, 1, e)
                            ELSE CompletedRecord(call.model, 1, call.completion.stdout, d),
                 alive |-> alive]
    /\ UNCHANGED <<models, tick_limit, device_limit, call, orchVars, samplerVars, inFlight>>

CmdNext == RunCmd \/ RunTest
CmdSpec == InitCmd /\ [][CmdNext]_vars

(* ======================= properties ======================= *)
RecordsOf(m, t) == {i \in 1..Len(results) : results[i].model = models[m]
                                            /\ results[i].test_case = t}
RecordsOfModel(m) == {i \in 1..Len(results) : results[i].model = models[m]}
Terminal == {"done", "raised"}

\* C1: every (model, test case) pair whose test invocation has ended has exactly one
\* Result Record in the result sink, never zero and never two.
C1_ExactlyOneRecord ==
    \A m \in 1..Len(models), t \in TestNames :
        /\ Cardinality(RecordsOf(m, t)) <= 1
        /\ ended[m, t] # "none" => Cardinality(RecordsOf(m, t)) = 1

\* C2: a model whose every pull fails gets exactly PING_RETRIES pulls and no ping, is
\* marked Failed without an exception, has no Result Record and no stop request, and
\* the loop goes on to the following model, which starts from a fresh retry loop.
C2_PullAlwaysFails ==
    /\ (mi >= 1 /\ pulls > 0 /\ pullFails = pulls) =>
          /\ pings = 0
          /\ pulls <= PING_RETRIES
          /\ RecordsOfModel(mi) = {}
          /\ ~stopReq /\ ~ping_ok
          /\ pc \in {"pull", "ready", "loop", "join", "agg", "done"}
          /\ pc # "pull" => pulls = PING_RETRIES
          /\ pc \notin {"pull", "ready"} => phase[mi] = "Failed"
          /\ (pc = "loop" /\ mi < Len(models)) => ENABLED NextModel
    /\ (pc = "pull" /\ pulls = 0) => (attempt = 0 /\ ~ping_ok /\ phase[mi] = "Pulling")
C2_Witness ==
    /\ pc = "loop" /\ mi = 1 /\ phase[1] = "Failed"
    /\ pulls = PING_RETRIES /\ pullFails = PING_RETRIES

\* C3: a test invocation is started only for a model one of whose attempts had a pull
\* with exit status zero followed by a ping with exit status zero and an answer that
\* is not blank; a ping is issued only after a pull with exit status zero.
C3_VerifiedBeforeTests ==
    /\ pc \in {"test", "running", "stop", "verify", "cooldown"} => verified
    /\ ping_ok => verified
    /\ pc = "ping" => pullOk
    /\ \A t \in TestNames :
         (mi >= 1 /\ ended[mi, t] # "none" /\ pc # "loop") => verified
C3_Witness == pc = "running" /\ verified /\ pullOk

\* C4: no failure inside one model's sequence leaves the per-model loop as an
\* exception; the remaining models are still processed.
C4_NoExceptionEscapes == pc # "raised"

AllowedTransitions ==
    {<<"Pending", "Pulling">>, <<"Pulling", "Verifying">>, <<"Verifying", "Pulling">>,
     <<"Verifying", "Testing">>, <<"Testing", "Stopping">>, <<"Stopping", "Done">>,
     <<"Pulling", "Failed">>, <<"Verifying", "Failed">>}

\* C5: a model's lifecycle takes only the transitions Pending -> Pulling -> Verifying
\* -> Testing -> Stopping -> Done, with Failed entered only from Pulling or Verifying,
\* and a model that passed verification has been sent a stop request and is Done
\* when the loop turns to the next model.
C5_Lifecycle ==
    [][ /\ \A m \in 1..NumModels :
             phase'[m] # phase[m] => <<phase[m], phase'[m]>> \in AllowedTransitions
        /\ (pc' = "loop" /\ mi' >= 1 /\ verified') =>
             (stopReq' /\ phase'[mi'] = "Done") ]_vars

\* C6: no step of the sampler thread, failing or not, changes anything of the
\* orchestrator, and the orchestrator reaches the end of run_tests_for_models even
\* if the sampler's queries never return.
C6_SamplerNeverStopsOrchestrator ==
    /\ [][SamplerNext => UNCHANGED orchVars]_vars
    /\ <>(pc \in Terminal)
C6_Witness == pc = "done" /\ header = "none" /\ spc = "stopped" /\ Len(results) > 0

\* C7: after the cancellation flag is set the sampler starts no tick, appends at most
\* the rows of the tick that was in flight, sleeps at most once, and every row of the
\* sink is complete.
C7_CancelStopsSampling ==
    /\ ticksAfterCancel = 0
    /\ sleepsAfterCancel <= 1
    /\ rowsAfterCancel <= device_limit
    /\ rowsAfterCancel > 0 => inFlight
    /\ \A i \in 1..Len(telemetry) : telemetry[i].ncols = NUM_FIELDS
    /\ (stop_event /\ spc \in {"finally", "stopped"}) => ~sinkOpen
C7_Witness ==
    /\ spc = "stopped" /\ stop_event
    /\ rowsAfterCancel > 0 /\ sleepsAfterCancel = 1

\* C8: when the Aggregator starts, the sampler has reached Stopped and no longer holds
\* the telemetry sink open.
C8_AggregatorReadsClosedSink ==
    aggCalls > 0 => (aggSawSampler = "stopped" /\ ~aggSawOpen)

\* C9: the sampler is started before the first pull, the cancellation flag is set only
\* after every model is Done or Failed, the Aggregator is invoked only after the flag
\* is set, and exactly once in a run.
C9_RunOrder ==
    /\ (mi >= 1) => spc # "idle"
    /\ stop_event => \A m \in 1..Len(models) : phase[m] \in {"Done", "Failed"}
    /\ aggCalls > 0 => stop_event
    /\ aggCalls <= 1
    /\ pc \in Terminal => aggCalls = 1

\* C10: at most one model is between its first pull and the end of its stop
\* verification, models are taken in list order, and the rows of the result sink are
\* in (model order, sorted test-case order).
C10_Sequential ==
    /\ Cardinality({m \in 1..NumModels :
                      phase[m] \in {"Pulling", "Verifying", "Testing", "Stopping"}}) <= 1
    /\ \A m \in 1..NumModels :
         /\ m < mi => phase[m] \in {"Done", "Failed"}
         /\ m > mi => phase[m] = "Pending"
    /\ \A i, j \in 1..Len(results) :
         i < j => \/ results[i].model < results[j].model
                  \/ /\ results[i].model = results[j].model
                     /\ results[i].test_case < results[j].test_case
C10_Witness == pc = "done" /\ Len(results) = NumModels * NumTests

\* the field of the row that holds the value of a query
FieldOf(q) ==
    CASE q = "utilization" -> "util_gpu_pct"
      [] q = "power" -> "power_W"
      [] q = "pcie_rx" -> "pcie_rx_MBps"
RowsOfTick(t) == {i \in 1..Len(telemetry) : telemetry[i].tick = t}

\* C11: in primary mode, when one metric query of a device raises during a tick, a row
\* for that device is still written with that metric as zero, and the tick still
\* writes one row for every device.
C11_PartialMetric ==
    /\ failed # "none" => (row.written /\ FieldOf(failed) \in row.zeroed)
    /\ (header = "primary" /\ spc = "p_sleep") =>
          Cardinality(RowsOfTick(ticks)) = device_count

PrimaryPositions == {"p_check", "p_tick", "p_sleep"}
FallbackPositions == {"f_check", "f_query", "f_write", "f_sleep"}

\* C12: the backend is chosen once: every row of the sink comes from the backend of
\* the sink's header, the primary loop runs only under the primary header and the
\* fallback loop only under the fallback header, and once a tick has started the
\* header is never rewritten and no backend is initialised again.
C12_BackendChosenOnce ==
    /\ [](\A i \in 1..Len(telemetry) : telemetry[i].backend = header)
    /\ [](spc \in PrimaryPositions => header = "primary")
    /\ [](spc \in FallbackPositions => header = "fallback")
    /\ [][ticks > 0 => (header' = header /\ spc' \notin {"init", "fb_init"})]_vars
C12_Witness ==
    /\ header = "fallback" /\ ticks >= 2 /\ spc = "stopped"
    /\ \E i, j \in 1..Len(telemetry) : telemetry[i].tick = 1 /\ telemetry[j].tick = 2

(* ---- the Aggregator ---- *)
\* which backend wrote a header, whatever its letter case
HeaderKind ==
    [h \in KnownHeaders |->
       IF RecaseAll("upper", h) = RecaseAll("upper", fieldnames) THEN "primary"
       ELSE IF RecaseAll("upper", h) = RecaseAll("upper", fallback_fieldnames) THEN "fallback"
       ELSE "other"]
\* positions of the GPU-utilization, temperature and power-draw columns
UtilIndex(kind) == 3
TempIndex(kind) == IF kind = "primary" THEN 8 ELSE 7
PowerIndex(kind) == IF kind = "primary" THEN 9 ELSE 8

\* res is the first column, in file order, whose lower-cased name contains the
\* highest-priority candidate that any column contains
IsFirstMatch(columns, candidates, res) ==
    LET Has(c, k) == Contains(candidates[c], Lower(columns[k]))
        Some(c) == \E k \in 1..Len(columns) : Has(c, k)
    IN IF \A c \in 1..Len(candidates) : ~Some(c) THEN res = None
       ELSE \E c \in 1..Len(candidates), k \in 1..Len(columns) :
              /\ Has(c, k) /\ res = columns[k]
              /\ \A c2 \in 1..(c - 1) : ~Some(c2)
              /\ \A k2 \in 1..(k - 1) : ~Has(c, k2)
FirstMatchHeaders ==
    {h \in KnownHeaders :
        /\ IsFirstMatch(h, UtilCandidates, Resolved[h].util_col)
        /\ IsFirstMatch(h, TempCandidates, Resolved[h].temp_col)
        /\ IsFirstMatch(h, PowerCandidates, Resolved[h].power_col)}
RightColumnHeaders ==
    {h \in KnownHeaders :
        HeaderKind[h] # "other" =>
          /\ Resolved[h].util_col = h[UtilIndex(HeaderKind[h])]
          /\ Resolved[h].temp_col = h[TempIndex(HeaderKind[h])]
          /\ Resolved[h].power_col = h[PowerIndex(HeaderKind[h])]}
CsvTelemetry == {n \in DOMAIN telemetry_dir : telemetry_dir[n].kind = "csv"}

\* C13: for a telemetry sink with the primary or the fallback header, in any letter
\* case, first_col_like resolves the GPU-utilization column for avg_util, the
\* temperature column for max_temp and the power-draw column for avg_power, each being
\* the first column in file order whose lower-cased name contains the highest-priority
\* candidate that any column contains; the aggregates of the payload are taken from
\* those columns.
C13_ColumnResolution ==
    \A n \in CsvTelemetry :
        LET t == telemetry_dir[n]
            kind == HeaderKind[t.columns]
            f == ResultName(n.id)
        IN /\ t.columns \in FirstMatchHeaders
           /\ t.columns \in RightColumnHeaders
           /\ (payload.status = "written" /\ f \in DOMAIN payload.telemetry
                 /\ kind # "other") =>
                 /\ payload.telemetry[f].avg_util = ColMean(t.rows, UtilIndex(kind))
                 /\ payload.telemetry[f].max_temp = ColMax(t.rows, TempIndex(kind))
                 /\ payload.telemetry[f].avg_power = ColMean(t.rows, PowerIndex(kind))
C13_Witness ==
    /\ payload.status = "written"
    /\ ResultName(1) \in DOMAIN payload.telemetry
    /\ TelemetryName(1) \in CsvTelemetry
    /\ Len(telemetry_dir[TelemetryName(1)].columns) = NUM_FIELDS
    /\ telemetry_dir[TelemetryName(1)].columns[3] =
          <<"U", "t", "i", "l", "i", "z", "a", "t", "i", "o", "n", ".", "G", "P", "U">>
    /\ payload.telemetry[ResultName(1)].avg_util = <<"mean", 7, 1>>

\* result sinks of RESULTS_DIR that pd.read_csv reads
ReadableSinks ==
    {n \in DOMAIN results_dir :
        n.prefix = "benchmark_results_" /\ results_dir[n].kind # "unreadable"}
ResultSinks == {n \in DOMAIN results_dir : n.prefix = "benchmark_results_"}
KeysOf(rows) == {<<rows[i].test_case, rows[i].model>> : i \in 1..Len(rows)}
EntriesOf(f, t, m) ==
    IF f \in DOMAIN payload.runs /\ t \in DOMAIN payload.runs[f]
    THEN {k \in DOMAIN payload.runs[f][t] : payload.runs[f][t][k].model = m}
    ELSE {}

\* C14: every (run, test case, model) group of rows of the readable result sinks has
\* exactly one entry in the payload, with the mean of the group's durations and a
\* count equal to the number of rows of the group, whatever the timestamps are.
C14_GroupMeanAndCount ==
    payload.status = "written" =>
      \A f \in ReadableSinks : \A key \in KeysOf(results_dir[f].rows) :
          LET rows == results_dir[f].rows
              I == GroupRows(rows, key[1], key[2])
              E == EntriesOf(f, key[1], key[2])
          IN /\ Cardinality(E) = 1
             /\ \A k \in E :
                  /\ payload.runs[f][key[1]][k].duration_s = Mean(rows, I)
                  /\ payload.runs[f][key[1]][k].count = Cardinality(I)

\* C15: the Aggregator raises only when no result sink exists or none can be read,
\* and it raises then; unreadable result sinks are skipped and the telemetry sinks
\* never make it raise.
C15_FailsOnlyWithoutSinks ==
    aggCalls > 0 => (payload.status = "raised" <=> ReadableSinks = {})

\* C16: the telemetry aggregate of the run of benchmark_results_<id>.csv is taken from
\* gpu_usage_<id>.csv and from no other file; it is null when that file does not
\* exist, and the outcome of the build does not depend on the telemetry files.
C16_TelemetryByRunIdentity ==
    aggCalls > 0 =>
      /\ payload.status = generate_master_dashboard(results_dir, NoFiles).status
      /\ payload.status = "written" =>
            \A id \in RunIds :
               ResultName(id) \in ResultSinks =>
                 /\ ResultName(id) \in DOMAIN payload.telemetry
                 /\ payload.telemetry[ResultName(id)] =
                      IF TelemetryName(id) \in CsvTelemetry
                      THEN telemetry_agg(telemetry_dir[TelemetryName(id)])
                      ELSE NullTelemetry
C16_Witness ==
    /\ payload.status = "written"
    /\ {ResultName(1), ResultName(2)} \subseteq DOMAIN payload.telemetry
    /\ TelemetryName(1) \notin DOMAIN telemetry_dir
    /\ TelemetryName(2) \in CsvTelemetry
    /\ payload.telemetry[ResultName(1)].null
    /\ ~payload.telemetry[ResultName(2)].null

\* C17: in the payload that is written, every model entry of every run carries a
\* telemetry field, equal to the run's entry in the flat run -> telemetry map.
C17_TelemetryInEveryEntry ==
    payload.status = "written" =>
      \A f \in DOMAIN payload.runs : \A t \in DOMAIN payload.runs[f] :
          \A k \in DOMAIN payload.runs[f][t] :
              /\ payload.runs[f][t][k].has_telemetry
              /\ payload.runs[f][t][k].telemetry = payload.telemetry[f]

\* C18: a second call of the Aggregator over the same sinks gives the same payload,
\* and a call changes, creates or deletes no result sink and no telemetry sink.
C18_Idempotent ==
    /\ [](aggCalls >= 2 => payload = prev_payload)
    /\ [][ /\ telemetry_dir' = telemetry_dir
           /\ {n \in DOMAIN results_dir' : n.prefix = "benchmark_results_"} = ResultSinks
           /\ \A n \in ResultSinks : results_dir'[n] = results_dir[n] ]_vars
C18_Witness ==
    /\ aggCalls = 2 /\ payload.status = "written"
    /\ DashboardName(CurrentRun) \in DOMAIN results_dir
    /\ Cardinality(DOMAIN payload.runs) = 2

\* C19: a Result Record appended by the controller with duration d, whose (run, test
\* case, model) key no other record shares, is in the payload as exactly one entry for
\* that key, with mean duration d and count 1.
C19_RoundTrip ==
    (pc = "done" /\ results # <<>>) =>
      /\ payload.status = "written"
      /\ \A i \in 1..Len(results) :
           LET r == results[i]
               E == EntriesOf(ResultName(CurrentRun), r.test_case, r.model)
           IN (\A j \in 1..Len(results) :
                  (results[j].test_case = r.test_case /\ results[j].model = r.model)
                     => j = i) =>
                /\ Cardinality(E) = 1
                /\ \A k \in E :
                     LET e == payload.runs[ResultName(CurrentRun)][r.test_case][k]
                     IN e.duration_s = <<r.duration_s, 1>> /\ e.count = 1
C19_Witness ==
    /\ pc = "done" /\ Len(results) = NumModels * NumTests
    /\ payload.status = "written"
    /\ \E i \in 1..Len(results) : results[i].duration_s = 2
    /\ \E i \in 1..Len(results) : results[i].duration_s = MAX_RESPONSE_TIME

\* C20: a verified model m1 whose test case t1 completes after 2 s with output OK and
\* whose test case t2 does not answer within MAX_RESPONSE_TIME gives the records
\* (m1, t1, 2, OK) and (m1, t2, 180, TIMEOUT), in that order, and the Aggregator
\* reports mean duration 2 for t1/m1 and 180 for t2/m1, each with count 1.
C20_EndToEnd ==
    (pc = "done" /\ ended[1, 1] = "completed" /\ ended[1, 2] = "timeout") =>
      /\ Len(results) >= 2
      /\ results[1] = [model |-> 1, test_case |-> 1, duration_s |-> 2,
                       output_chars |-> 2, output |-> <<"O", "K">>]
      /\ results[2] = [model |-> 1, test_case |-> 2, duration_s |-> 180,
                       output_chars |-> 0, output |-> TIMEOUT]
      /\ \A i \in 3..Len(results) : ~(results[i].model = 1 /\ results[i].test_case \in {1, 2})
      /\ payload.status = "written"
      /\ \A t \in {1, 2} :
           LET E == EntriesOf(ResultName(CurrentRun), t, 1)
           IN /\ Cardinality(E) = 1
              /\ \A k \in E :
                   LET e == payload.runs[ResultName(CurrentRun)][t][k]
                   IN /\ e.duration_s = <<IF t = 1 THEN 2 ELSE 180, 1>>
                      /\ e.count = 1
C20_Witness ==
    /\ pc = "done" /\ ended[1, 1] = "completed" /\ ended[1, 2] = "timeout"
    /\ payload.status = "written" /\ Len(models) = 1
(* ---- run_cmd and the external commands ---- *)
\* C21: run_cmd reports a timeout with an exit status that no command that ran to
\* completion can return: the returned status is TIMEOUT_RC exactly when the command
\* timed out
C21_TimeoutStatusDistinct ==
    ret.kind = "run_cmd" => (ret.rc = TIMEOUT_RC <=> call.completion.timedOut)

\* C22: when an external command hits its timeout, in run_cmd or in the test call,
\* every process spawned for it has been terminated when the call returns
C22_NoProcessLeftBehind ==
    (ret.kind \in {"run_cmd", "test"} /\ call.completion.timedOut) => ret.alive = {}

\* C23: every external command of a run (pull, ping, test, stop, the listing of the
\* active models, the fallback query of the sampler) is issued with a finite timeout
C23_EveryCommandHasTimeout ==
    call.command \in Commands => TimeoutOf(call.command).finite

(* ---- stop verification ---- *)
\* C24: after the stop request the controller polls the listing at most STOP_POLLS
\* times and stops polling at the first poll in which the model is not listed; whether
\* or not the stop was confirmed, and whatever the status of the stop request, it goes
\* on to the cooldown and from there to the next model
C24_StopVerificationBounded ==
    /\ [](pc = "verify" => (polls < STOP_POLLS /\ ~stopped))
    /\ [][/\ pc = "stop" => pc' = "verify"
          /\ pc = "verify" => (pc' = "verify" /\ polls' = polls + 1) \/ pc' = "cooldown"
          /\ pc = "cooldown" => pc' = "loop" /\ phase'[mi] = "Done"]_orchVars
\* the sixth poll still listed the model, and the controller is in the cooldown
C24_Witness == pc = "cooldown" /\ stopReq /\ ~stopped

(* ---- the result sink ---- *)
\* position of a record in the order of production: models in list order, the test
\* cases of a model in the order of the sorted file names
ProducedBefore(a, b) ==
    \/ a.model < b.model
    \/ a.model = b.model /\ a.test_case < b.test_case
\* C25: at every moment of a run the result sink is exactly one header row followed by
\* the records produced so far, in production order: it is created with the header at
\* run start, and every write adds one record at the end and leaves the header and
\* the earlier records as they were
C25_SinkIsHeaderPlusLog ==
    /\ [](pc # "start" => (results_exists /\ result_headers = 1))
    /\ [](pc = "start" => (results = <<>> /\ result_headers = 0))
    /\ [](\A i, j \in 1..Len(results) : i < j => ProducedBefore(results[i], results[j]))
    /\ [][/\ Len(results') \in {Len(results), Len(results) + 1}
          /\ SubSeq(results', 1, Len(results)) = results
          /\ results_exists => (results_exists' /\ result_headers' = result_headers)]_orchVars
\* two records were appended after the header
C25_Witness == result_headers = 1 /\ Len(results) = 2 /\ pc = "done"

(* ---- the test call ---- *)
\* C26: the text of a test prompt reaches the model process through standard input
\* only: the argument list and the environment of the test call are those of any other
\* prompt for the same host and model
C26_PromptOnlyOnStdin ==
    ret.kind = "test" =>
        /\ ret.cmd.stdin = call.prompt
        /\ \A p \in Prompts :
             /\ TestCommand(call.host, call.model, p).argv = ret.cmd.argv
             /\ TestCommand(call.host, call.model, p).env = ret.cmd.env
        /\ \A k \in 1..Len(ret.cmd.argv) : ~Contains(call.prompt, ret.cmd.argv[k])
\* a test call was made with a prompt that holds shell syntax
C26_Witness ==
    ret.kind = "test" /\ call.prompt = <<"$", "(", "i", "d", ")">>

\* C27: the stored output of a record is bounded: a completed test stores the first
\* MAX_OUTPUT_CHARS characters of its stdout and never more, a timed-out test stores
\* the sentinel TIMEOUT, and the record of a completed test is not the record of a
\* timeout even when the model answered with the word TIMEOUT
C27_StoredOutputBounded ==
    ret.kind = "test" =>
        LET out == call.completion.stdout
            rec == ret.record
        IN IF call.completion.timedOut
           THEN rec.output = TIMEOUT /\ rec.output_chars = 0
           ELSE /\ Len(rec.output) = Min(Len(out), MAX_OUTPUT_CHARS)
                /\ rec.output = SubSeq(out, 1, Len(rec.output))
                /\ rec.output_chars = Len(out)
                /\ rec.output = TIMEOUT => rec.output_chars # 0
                /\ \A e \in TimeoutDurations :
                       rec # TimeoutRecord(rec.model, rec.test_case, e)
\* the model answered with more characters than are stored
C27_Witness ==
    /\ ret.kind = "test" /\ ~call.completion.timedOut
    /\ Len(call.completion.stdout) > MAX_OUTPUT_CHARS
    /\ Len(ret.record.output) = MAX_OUTPUT_CHARS
(* ---- a model without test cases ---- *)
\* the controller found no test file for the verified model of the current iteration
NoTestCases == pc = "loop" /\ mi >= 1 /\ ping_ok /\ phase[mi] = "Failed"
\* C28: if no test case is found for a verified model, the controller writes no record
\* for that model, leaves the rest of the work for that model and goes on with the next
\* model, or with the end of the run after the last one; the run is not aborted and the
\* sampler is not cancelled
C28_NoTestCasesSkipsModel ==
    /\ [][(pc = "ready" /\ ping_ok /\ test_files' = <<>>) =>
            (pc' = "loop" /\ results' = results /\ ~stop_event' /\ spc' = spc)]_orchVars
    /\ [](NoTestCases => (RecordsOfModel(mi) = {} /\ ~stopReq /\ ~stop_event))
    /\ [][NoTestCases =>
            IF mi < Len(models)
            THEN mi' = mi + 1 /\ phase'[mi'] = "Pulling" /\ pc' \in {"pull", "ready"}
            ELSE pc' = "join" /\ stop_event']_orchVars
    /\ [](\A m \in 1..NumModels : phase[m] = "Failed" => RecordsOfModel(m) = {})
\* no test case was found for the first model, while the sampler is running
C28_Witness == NoTestCases /\ mi = 1 /\ spc \notin {"idle", "stopped"}

(* ---- end of the run ---- *)
\* C29: a run whose external commands all return or time out terminates in order: when
\* the controller has ended, every model of the list is Done or Failed, the
\* cancellation flag is set and the Aggregator was invoked once
C29_RunEndsInOrder ==
    pc \in Terminal =>
        /\ \A m \in 1..Len(models) : phase[m] \in {"Done", "Failed"}
        /\ stop_event
        /\ aggCalls = 1

(* ---- the rows of the fallback backend ---- *)
\* C30: in fallback mode the row appended for a line of the query tool holds, under
\* each of the 18 header columns, the value the tool reported for the field of that
\* column: gpu_index the device index, utilization.gpu the GPU utilization, and so on
C30_FallbackColumnsMatch ==
    \A r \in 1..Len(telemetry) :
        telemetry[r].backend = "fallback" =>
            \A k \in 2..NUM_FIELDS : telemetry[r].values[k] = QueryLine[k]

(* ---- the Aggregator at the end of a run ---- *)
\* C31: whenever a result sink is readable, generate_master_dashboard writes the
\* document and returns its path, also when the readable sinks hold a header and no
\* row: at the end of a run, whose own result sink is readable, the document is written
C31_DocumentWrittenWhenSinkReadable ==
    (pc = "done" /\ results_exists) => payload.status = "written"

(* ---- the listing of the stop verification ---- *)
\* C32: the stop of a model is taken as confirmed only on a listing that was obtained
\* with success and does not list the model: a listing command that fails or returns
\* no output does not confirm the stop
C32_StopConfirmedByListing ==
    (ret.kind = "run_cmd" /\ call.command = "ps" /\ ret.stopped) =>
        (ret.rc = 0 /\ ret.out # None /\ ret.out # <<>>)

(* ---- the backoff of the retry loop ---- *)
\* C33: the backoff interval is waited only between two attempts: when the retry loop
\* is over, one wait was made for every attempt but the one that ended the loop, be it
\* the successful attempt or the last failed one
C33_BackoffOnlyBetweenAttempts ==
    (pc = "ready" /\ pulls > 0) => backoffs = pulls - 1

(* ---- order of the telemetry rows ---- *)
\* C34: within one telemetry sink the rows of one device index are in non-decreasing
\* order of time, and within one tick a device index has at most one row
C34_RowsOrderedPerDevice ==
    \A r, q \in 1..Len(telemetry) :
        r < q =>
            /\ telemetry[r].tick <= telemetry[q].tick
            /\ telemetry[r].tick = telemetry[q].tick =>
                   telemetry[r].gpu_index # telemetry[q].gpu_index

(* ---- what the two threads share ---- *)
\* C35: the telemetry sink and the cancellation flag have a single writer each, and so
\* has the result sink: a step that writes the telemetry sink is a step of the sampler
\* and changes nothing of the orchestrator, a step that writes the result sink is a step
\* of the orchestrator and changes nothing the sampler writes, and the flag changes only
\* once, from unset to set, in the step of the orchestrator that ends the model loop
C35_SingleWriters ==
    /\ [][(telemetry' # telemetry \/ header' # header \/ sinkOpen' # sinkOpen) =>
            (spc \notin {"idle", "stopped"} /\ UNCHANGED orchVars)]_vars
    /\ [][(results' # results \/ results_exists' # results_exists
                                \/ result_headers' # result_headers) =>
            (pc' # pc /\ UNCHANGED <<header, telemetry, sinkOpen, ticks, dev, lines>>)]_vars
    /\ [][stop_event' # stop_event =>
            (~stop_event /\ stop_event' /\ pc = "loop" /\ pc' = "join"
             /\ UNCHANGED <<spc, header, telemetry, sinkOpen>>)]_vars
    /\ [](spc = "idle" => (header = "none" /\ telemetry = <<>>))
\* both sinks were written by their threads and the flag is set
C35_Witness ==
    stop_event /\ Len(results) > 0 /\ Len(telemetry) > 0 /\ spc = "stopped"

(* ---- a test call that exits with a failure status ---- *)
\* the test file whose call returned last, while test_rc holds its exit status
LastTested == test_files[IF pc = "test" THEN ti - 1 ELSE ti]
\* C36: a test call that ends within the timeout with a non-zero exit status is recorded
\* and does not propagate: the result sink ends with the one record of that test, with
\* the measured duration and the captured stdout, the model is not pulled or pinged
\* again, and the loop goes on to the next test file, or to the stop after the last one
C36_FailedExitIsRecorded ==
    test_rc # 0 =>
        /\ pc \in {"test", "stop"}
        /\ pc = "stop" => ti = Len(test_files)
        /\ Len(results) > 0
        /\ \E out \in TestOuts, d \in TestDurations :
               results[Len(results)] = [model |-> models[mi], test_case |-> LastTested,
                                        duration_s |-> d, output_chars |-> Len(out),
                                        output |-> Clip(out)]
        /\ Cardinality({k \in 1..Len(results) :
                           /\ results[k].model = models[mi]
                           /\ results[k].test_case = LastTested}) = 1
        /\ ended[mi, LastTested] = "completed"
        /\ pulls = 0 /\ pings = 0
\* the first test call of a model exited with a failure status and the second test
\* file is about to be run
C36_Witness ==
    pc = "test" /\ test_rc # 0 /\ ti = 2 /\ Len(results) > 0

(* ---- the flag on every way out of run_tests_for_models ---- *)
\* C37: on every path by which run_tests_for_models ends, by its last statement or by
\* an exception raised inside it, the cancellation flag has been set
C37_FlagSetOnEveryExit == (pc = "done" \/ pc = "raised") => stop_event

(* ---- what a failed query of the primary backend changes in the row ---- *)
\* C38: in primary mode the failure of one metric query changes only the field of that
\* metric in the row that is written: no field of a query that succeeded is set to 0
C38_FailureChangesOnlyItsField ==
    (failed # "none" /\ row.written) => row.zeroed \subseteq {FieldOf(failed)}

====
